---- MODULE Spec2Model ----
(***************************************************************************)
(* Notification deduplication of the desktop shell (src/electron.js):      *)
(* the recentNotifications map, isDuplicateNotification and the two IPC    *)
(* handlers 'show-desktop-notification' and 'show-notification' that call  *)
(* it.  Timestamps are milliseconds as returned by Date.now().             *)
(*                                                                         *)
(* Persistent storage of the token and the user: the electron-store of the *)
(* main process with its IPC handlers (src/electron.js:69-84, 290-377) and *)
(* the preload functions saveToken, getToken, saveUser, getUser and        *)
(* clearStorage that call them and mirror the values into the renderer's   *)
(* localStorage (src/preload.js:46-165).                                   *)
(***************************************************************************)
EXTENDS Integers, Sequences, FiniteSets, TLC

VARIABLES
    recentNotifications,  \* Map tag -> timestamp (electron.js:479)
    clock,                \* the latest value returned by Date.now()
    soloNotifications,    \* per tag: the map of a run that sees only that tag's calls
    acceptedUntagged,     \* the requests without a usable tag that were not suppressed
    noSweepNotifications, \* the map of the same calls made to the logic without the sweep
    fills,                \* how many of the burst tags n1, n2, ... were requested so far
    last,                 \* the latest call: its inputs, what isDuplicateNotification
                          \* returned (dup) and what the handler returned (ret)
    store,                \* the electron-store of the main process, or null (electron.js:69)
    localStorage,         \* the renderer's localStorage
    ipc,                  \* the invoke messages sent and not yet handled, in the order sent
    replies,              \* the handler results not yet received by the awaiting function
    resolved,             \* the preload call that resolved last, and what it returned
    audit                 \* what happened since the events the claims speak of

notificationVars == <<recentNotifications, clock, soloNotifications, noSweepNotifications,
                      acceptedUntagged, fills, last>>

storageVars == <<store, localStorage, ipc, replies, resolved, audit>>

vars == <<recentNotifications, clock, soloNotifications, noSweepNotifications,
          acceptedUntagged, fills, last,
          store, localStorage, ipc, replies, resolved, audit>>

----------------------------------------------------------------------------
(* Program constants *)

DEDUP_WINDOW_MS == 2000

SWEEP_THRESHOLD == 100

----------------------------------------------------------------------------
(* Bounds of the model *)

\* the two Date.now() readings of one handler run are at most this far apart
MaxLag == 1

\* Spec: at most this many records with a synthesized tag
MaxUntagged == 1

\* SpecSweep: the burst tags are n1 .. nMaxFill
MaxFill == 101

\* SpecSpaced: the number of spaced inserts
MaxInserts == 150

----------------------------------------------------------------------------
(* Values *)

\* An optional string: << >> is undefined, <<s>> is the string s.
Absent == << >>

Some(s) == <<s>>

\* Mutant: only undefined counts as "no tag" (tag === undefined)
TruthyTag_OnlyUndefined(tag) == tag # Absent

\* JavaScript truthiness of an optional string (!tag, tag || ...)
TruthyTag(tag) == tag # Absent /\ tag[1] # ""

EmptyMap == [k \in {} |-> 0]

\* Map.prototype.set
MapSet(map, key, value) == [k \in DOMAIN map \cup {key} |-> IF k = key THEN value ELSE map[k]]

\* Mutant: the synthesized tag leaves the clock reading out
SynthTag_NoTime(title, body, now) ==
    "notification-" \o title \o "-" \o body

\* the template literal `notification-${title}-${body}-${Date.now()}`
SynthTag(title, body, now) ==
    "notification-" \o title \o "-" \o body \o "-" \o ToString(now)

----------------------------------------------------------------------------
(* isDuplicateNotification, electron.js:482-505 *)

\* Mutant: the cutoff is the current reading
Sweep_OlderThanNow(map, now) ==
    [k \in {j \in DOMAIN map : ~(map[j] < now)} |-> map[k]]

\* Mutant: the comparison is reversed, the young entries are deleted
Sweep_Reversed(map, now) ==
    [k \in {j \in DOMAIN map : ~(map[j] > now - DEDUP_WINDOW_MS * 2)} |-> map[k]]

\* Mutant: the cutoff is computed as if the window were in seconds
Sweep_CutoffInSeconds(map, now) ==
    [k \in {j \in DOMAIN map : ~(map[j] < now - DEDUP_WINDOW_MS * 2 * 1000)} |-> map[k]]

\* Mutant: the cutoff is half a window back
Sweep_HalfWindow(map, now) ==
    [k \in {j \in DOMAIN map : ~(map[j] < now - DEDUP_WINDOW_MS \div 2)} |-> map[k]]

\* lines 495-502: delete every entry older than the cutoff
Sweep(map, now) ==
    LET cutoff == now - DEDUP_WINDOW_MS * 2
        keep == {k \in DOMAIN map : ~(map[k] < cutoff)}
    IN  [k \in keep |-> map[k]]

\* Mutant: the sweep already runs at 100 entries (size >= 100)
Cleanup_AtThreshold(map, now) ==
    IF Cardinality(DOMAIN map) >= SWEEP_THRESHOLD THEN Sweep(map, now) ELSE map

\* lines 494-502
Cleanup(map, now) ==
    IF Cardinality(DOMAIN map) > SWEEP_THRESHOLD THEN Sweep(map, now) ELSE map

\* line 487: lastShown && (now - lastShown) < DEDUP_WINDOW_MS
\* (lastShown is undefined for a missing key, and 0 is falsy)
WithinWindow(map, key, now) ==
    /\ key \in DOMAIN map
    /\ map[key] # 0
    /\ now - map[key] < DEDUP_WINDOW_MS

\* Mutant: a duplicate refreshes the stored timestamp
isDuplicateNotification_RefreshOnDup(map, tag, now) ==
    IF ~TruthyTag(tag)
    THEN [dup |-> FALSE, map |-> map]
    ELSE IF WithinWindow(map, tag[1], now)
         THEN [dup |-> TRUE, map |-> MapSet(map, tag[1], now)]
         ELSE [dup |-> FALSE, map |-> Cleanup(MapSet(map, tag[1], now), now)]

\* The function on (map, tag, Date.now()): what it returns and the map it leaves.
isDuplicateNotification(map, tag, now) ==
    IF ~TruthyTag(tag)
    THEN [dup |-> FALSE, map |-> map]
    ELSE IF WithinWindow(map, tag[1], now)
         THEN [dup |-> TRUE, map |-> map]
         ELSE [dup |-> FALSE, map |-> Cleanup(MapSet(map, tag[1], now), now)]

\* The same logic with the sweep of lines 494-502 removed.
isDuplicateNoSweep(map, tag, now) ==
    IF ~TruthyTag(tag)
    THEN [dup |-> FALSE, map |-> map]
    ELSE IF WithinWindow(map, tag[1], now)
         THEN [dup |-> TRUE, map |-> map]
         ELSE [dup |-> FALSE, map |-> MapSet(map, tag[1], now)]

\* The same call in a run from which the calls for all other tags are removed:
\* it reads and writes only the tag's own entry of soloNotifications.
SoloView(solo, tag) ==
    IF TruthyTag(tag) /\ tag[1] \in DOMAIN solo
    THEN [k \in {tag[1]} |-> solo[k]]
    ELSE EmptyMap

SoloCall(solo, tag, now) == isDuplicateNotification(SoloView(solo, tag), tag, now)

SoloUpdate(solo, tag, now) ==
    LET r == SoloCall(solo, tag, now)
    IN  IF TruthyTag(tag)
        THEN [k \in (DOMAIN solo \ {tag[1]}) \cup DOMAIN r.map |->
                 IF k \in DOMAIN r.map THEN r.map[k] ELSE solo[k]]
        ELSE solo

----------------------------------------------------------------------------
(* Operations *)

NoCall ==
    [op |-> "none", tag |-> Absent, title |-> "", body |-> "", t1 |-> 0, key |-> Absent,
     dup |-> FALSE, soloDup |-> FALSE, noSweepDup |-> FALSE, ret |-> FALSE,
     sweptAway |-> FALSE, forgotten |-> FALSE, swept |-> FALSE, removed |-> 0]

\* no notification was requested yet
NoNotifications ==
    /\ recentNotifications = EmptyMap
    /\ clock = 0
    /\ soloNotifications = EmptyMap
    /\ noSweepNotifications = EmptyMap
    /\ acceptedUntagged = {}
    /\ fills = 0
    /\ last = NoCall

\* the defaults of new Store({...}), electron.js:73-79
StoreDefaults ==
    [token |-> Absent, accessToken |-> Absent, user |-> Absent,
     workspaceId |-> Absent, workspaceSlug |-> Absent]

\* an empty localStorage: getItem returns null for every key
EmptyStorage ==
    [token |-> Absent, accessToken |-> Absent, ocs_user |-> Absent,
     workspaceId |-> Absent, workspaceSlug |-> Absent]

NothingResolved ==
    [fn |-> "none", arg |-> Absent, success |-> FALSE, value |-> Absent, changed |-> FALSE]

NoAudit ==
    [savedToken |-> Absent, getFailed |-> FALSE, loggedOut |-> FALSE,
     faulted |-> FALSE, wiped |-> FALSE]

\* A fresh installation; st is what electron.js:69-84 leaves in store: the new
\* Store, or null when require("electron-store") or the constructor throws.
FreshStorage(st) ==
    /\ store = st
    /\ localStorage = EmptyStorage
    /\ ipc = << >>
    /\ replies = << >>
    /\ resolved = NothingResolved
    /\ audit = NoAudit

Init ==
    /\ NoNotifications
    /\ FreshStorage(Some(StoreDefaults))

\* What one call of isDuplicateNotification(key) at reading now does to the state;
\* call names the caller and its request; a handler returns true when the tag is
\* no duplicate and the notification gets shown (shows).
Dedup(call, key, now, shows) ==
    LET r == isDuplicateNotification(recentNotifications, key, now)
        n == isDuplicateNoSweep(noSweepNotifications, key, now)
    IN  /\ recentNotifications' = r.map
        /\ noSweepNotifications' = n.map
        /\ UNCHANGED storageVars
        /\ soloNotifications' = SoloUpdate(soloNotifications, key, now)
        /\ clock' = now
        /\ last' = [op |-> call.op, tag |-> call.tag, title |-> call.title,
                    body |-> call.body, t1 |-> call.t1, key |-> key,
                    dup |-> r.dup,
                    soloDup |-> SoloCall(soloNotifications, key, now).dup,
                    noSweepDup |-> n.dup,
                    sweptAway |-> /\ TruthyTag(key)
                                  /\ key[1] \in DOMAIN noSweepNotifications
                                  /\ key[1] \notin DOMAIN recentNotifications,
                    ret |-> ~r.dup /\ shows,
                    forgotten |-> /\ TruthyTag(key)
                                  /\ key[1] \in DOMAIN soloNotifications
                                  /\ key[1] \notin DOMAIN recentNotifications,
                    swept |-> /\ ~r.dup
                              /\ TruthyTag(key)
                              /\ Cardinality(DOMAIN recentNotifications \cup {key[1]})
                                     > SWEEP_THRESHOLD,
                    removed |-> Cardinality(DOMAIN recentNotifications \ DOMAIN r.map)]

\* A direct call isDuplicateNotification(tag) (the spec's shouldSuppress(tag, now))
\* in which Date.now() reads now.
IsDuplicateCall(tag, now) ==
    /\ Dedup([NoCall EXCEPT !.op = "isDuplicateNotification", !.tag = tag, !.t1 = now],
             tag, now, FALSE)
    /\ UNCHANGED acceptedUntagged

\* Handler bodies, electron.js:519-601 and 604-675.  data.tag is data.data?.tag
\* for the first and options.tag for the second; isSupported is what
\* Notification.isSupported() returns, t1 the handler's own Date.now() reading
\* (line 533 / 612, evaluated only when the request has no usable tag), now the
\* reading inside isDuplicateNotification (line 484); fail says that building or
\* showing the Notification throws.
Handler(op, data, isSupported, t1, now, fail) ==
    IF ~isSupported
    THEN /\ last' = [NoCall EXCEPT !.op = op]
         /\ UNCHANGED <<recentNotifications, clock, soloNotifications,
                         noSweepNotifications, acceptedUntagged>>
         /\ UNCHANGED storageVars
    ELSE LET explicit == TruthyTag(data.tag)
             key == IF explicit THEN data.tag
                    ELSE Some(SynthTag(data.title, data.body, t1))
             call == [NoCall EXCEPT !.op = op, !.tag = data.tag, !.title = data.title,
                                    !.body = data.body, !.t1 = t1]
         IN  /\ Dedup(call, key, now, ~fail)
             /\ acceptedUntagged' =
                   IF explicit \/ last'.dup THEN acceptedUntagged
                   ELSE acceptedUntagged \cup
                          {[title |-> data.title, body |-> data.body, t1 |-> t1]}

ShowDesktopNotification(data, isSupported, t1, now, fail) ==
    Handler("show-desktop-notification", data, isSupported, t1, now, fail)

ShowNotification(options, isSupported, t1, now, fail) ==
    Handler("show-notification", options, isSupported, t1, now, fail)

----------------------------------------------------------------------------
(* Spec: one explicit tag and untagged requests, both handlers and direct calls *)

ExplicitTags == {"x"}

NoTag == {Absent, Some("")}

TagInputs == NoTag \cup {Some(t) : t \in ExplicitTags}

Requests ==
    [title : {"t"}, body : {"b"}, tag : {Some(t) : t \in ExplicitTags}]
        \cup [title : {"t"}, body : {"b"}, tag : NoTag]
        \cup [title : {"t-b"}, body : {"c"}, tag : {Absent}]
        \cup [title : {"t"}, body : {"b-c"}, tag : {Absent}]

\* the readings Date.now() returns, a non-decreasing clock
Readings == {0, 1, 2000, 2001, 4000, 4001}

Later(R, t) == {r \in R : r >= t}

\* What one handler run reads from its environment.  On a platform without
\* notification support it returns before reading the clock or building anything.
HandlerRuns(R, data) ==
    {e \in [isSupported : BOOLEAN, t1 : R, now : R, fail : BOOLEAN] :
        /\ e.t1 >= clock
        /\ e.now >= e.t1
        /\ e.now - e.t1 <= MaxLag
        /\ TruthyTag(data.tag) => e.now = e.t1
        /\ ~e.isSupported => (e.t1 = clock /\ e.now = clock /\ ~e.fail)}

\* a request without a usable tag adds a record per clock reading: bound them
UntaggedRoom ==
    Cardinality(DOMAIN recentNotifications' \ ExplicitTags) <= MaxUntagged

Next ==
    \/ \E tag \in TagInputs, now \in Later(Readings, clock) :
          /\ IsDuplicateCall(tag, now)
          /\ UNCHANGED fills
    \/ \E data \in Requests : \E e \in HandlerRuns(Readings, data) :
          /\ ShowDesktopNotification(data, e.isSupported, e.t1, e.now, e.fail)
          /\ UntaggedRoom
          /\ UNCHANGED fills
    \/ \E options \in Requests : \E e \in HandlerRuns(Readings, options) :
          /\ ShowNotification(options, e.isSupported, e.t1, e.now, e.fail)
          /\ UntaggedRoom
          /\ UNCHANGED fills

Spec == Init /\ [][Next]_vars

----------------------------------------------------------------------------
(* SpecSweep: the tags x and y, absent tags and bursts of fresh tags that fill the map *)

\* the i-th fresh tag
FillTag(i) == "n" \o ToString(i)

SweepReadings == {0, 1, 2000, 4001, 4002}

SweepTagInputs == NoTag \cup {Some("x"), Some("y")}

\* Fresh tags are requested in order, and a burst stays within one clock reading:
\* the next fresh tag comes at the reading its predecessor was recorded at.
InBurst(now) ==
    \/ fills = 0
    \/ /\ FillTag(fills) \in DOMAIN recentNotifications
       /\ recentNotifications[FillTag(fills)] = now

NextSweep ==
    \/ \E tag \in SweepTagInputs, now \in Later(SweepReadings, clock) :
          /\ IsDuplicateCall(tag, now)
          /\ UNCHANGED fills
    \/ \E now \in Later(SweepReadings, clock) :
          /\ fills < MaxFill
          /\ InBurst(now)
          /\ IsDuplicateCall(Some(FillTag(fills + 1)), now)
          /\ fills' = fills + 1

SpecSweep == Init /\ [][NextSweep]_vars

----------------------------------------------------------------------------
(* SpecSpaced: distinct tags accepted at readings more than 4000 ms apart *)

FirstReadings == {0, 1, 4001}

SpacedGaps == {4001}

SpacedReadings ==
    IF fills = 0 THEN FirstReadings ELSE {clock + g : g \in SpacedGaps}

NextSpaced ==
    \E now \in SpacedReadings :
        /\ fills < MaxInserts
        /\ IsDuplicateCall(Some(FillTag(fills + 1)), now)
        /\ fills' = fills + 1

SpecSpaced == Init /\ [][NextSpaced]_vars

----------------------------------------------------------------------------
(* Values of the token and user storage *)

\* a || b on optional strings
OrElse(a, b) == IF TruthyTag(a) THEN a ELSE b

\* a || null
OrNull(a) == IF TruthyTag(a) THEN a ELSE Absent

\* truthiness of an optional number
TruthyNumber(n) == n # Absent /\ n[1] # 0

\* the user objects the application passes to saveUser
UserValues ==
    {[name |-> "u", token |-> Some("A"), workspaceId |-> Some(7), workspaceSlug |-> Some("w")],
     [name |-> "v", token |-> Absent, workspaceId |-> Absent, workspaceSlug |-> Absent]}

JsonString(name, v) ==
    IF v = Absent THEN "" ELSE ",\"" \o name \o "\":\"" \o v[1] \o "\""

JsonNumber(name, v) ==
    IF v = Absent THEN "" ELSE ",\"" \o name \o "\":" \o ToString(v[1])

\* JSON.stringify(userData): an undefined property is left out
JSONstringify(u) ==
    "{\"name\":\"" \o u.name \o "\"" \o JsonString("token", u.token)
        \o JsonNumber("workspaceId", u.workspaceId)
        \o JsonString("workspaceSlug", u.workspaceSlug) \o "}"

\* JSON.parse(userStr) of a string JSON.stringify wrote
JSONparse(userStr) == CHOOSE u \in UserValues : JSONstringify(u) = userStr

\* localStorage.setItem('token', token); localStorage.setItem('accessToken', token)
SetTokens(ls, token) == [ls EXCEPT !.token = token, !.accessToken = token]

----------------------------------------------------------------------------
(* The IPC handlers of the main process, electron.js:290-377.  st is the       *)
(* value of store; throws says that the first call on the store throws, which  *)
(* the handler catches.                                                        *)

\* what a handler returns: { success, token | user }
Result(success, value) == [rejected |-> FALSE, success |-> success, value |-> value]

\* the invoke promise rejects: the handler did not run
Rejection == [rejected |-> TRUE, success |-> FALSE, value |-> Absent]

SaveTokenHandler(st, token, throws) ==
    IF st = Absent \/ throws
    THEN [store |-> st, result |-> Result(FALSE, Absent)]
    ELSE [store |-> Some([st[1] EXCEPT !.token = token, !.accessToken = token]),
          result |-> Result(TRUE, Absent)]

GetTokenHandler(st, throws) ==
    IF st = Absent \/ throws
    THEN [store |-> st, result |-> Result(FALSE, Absent)]
    ELSE [store |-> st,
          result |-> Result(TRUE, OrElse(st[1].token, st[1].accessToken))]

SaveUserHandler(st, userData, throws) ==
    IF st = Absent \/ throws
    THEN [store |-> st, result |-> Result(FALSE, Absent)]
    ELSE LET u == userData[1]
             s1 == [st[1] EXCEPT !.user = userData]
             s2 == IF TruthyTag(u.token)
                   THEN [s1 EXCEPT !.token = u.token, !.accessToken = u.token]
                   ELSE s1
             s3 == IF TruthyNumber(u.workspaceId)
                   THEN [s2 EXCEPT !.workspaceId = u.workspaceId]
                   ELSE s2
             s4 == IF TruthyTag(u.workspaceSlug)
                   THEN [s3 EXCEPT !.workspaceSlug = u.workspaceSlug]
                   ELSE s3
         IN  [store |-> Some(s4), result |-> Result(TRUE, Absent)]

GetUserHandler(st, throws) ==
    IF st = Absent \/ throws
    THEN [store |-> st, result |-> Result(FALSE, Absent)]
    ELSE [store |-> st, result |-> Result(TRUE, st[1].user)]

\* store.clear() resets every item to its default
ClearStorageHandler(st, throws) ==
    IF st = Absent \/ throws
    THEN [store |-> st, result |-> Result(FALSE, Absent)]
    ELSE [store |-> Some(StoreDefaults), result |-> Result(TRUE, Absent)]

\* ipcMain.handle(channel, ...) applied to one message
Handle(msg, st, throws) ==
    CASE msg.ch = "save-token" -> SaveTokenHandler(st, msg.arg, throws)
      [] msg.ch = "get-token" -> GetTokenHandler(st, throws)
      [] msg.ch = "save-user" -> SaveUserHandler(st, msg.arg, throws)
      [] msg.ch = "get-user" -> GetUserHandler(st, throws)
      [] msg.ch = "clear-storage" -> ClearStorageHandler(st, throws)

----------------------------------------------------------------------------
(* The preload functions, preload.js:46-165: what each does when the promise   *)
(* it awaits settles.  ls is localStorage; a function either returns or sends  *)
(* its next invoke and awaits again.                                           *)

\* ipcRenderer.invoke(ch, arg) awaited by the preload function fn
Send(ch, arg, fn) == [ch |-> ch, arg |-> arg, fn |-> fn]

Returns(ls, success, value) ==
    [ls |-> ls, next |-> Absent, success |-> success, value |-> value]

Awaits(ls, msg) ==
    [ls |-> ls, next |-> Some(msg), success |-> FALSE, value |-> Absent]

\* saveToken after `await invoke('save-token', token)`, lines 49-62
saveTokenThen(token, result, ls) ==
    IF result.rejected
    THEN Returns(IF TruthyTag(token) THEN SetTokens(ls, token) ELSE ls, FALSE, Absent)
    ELSE Returns(IF result.success /\ TruthyTag(token) THEN SetTokens(ls, token) ELSE ls,
                 result.success, Absent)

\* Mutant: getToken returns the stored token without writing it to localStorage
getTokenThen_NoMirror(result, ls) ==
    IF result.rejected
    THEN Returns(ls, TRUE, OrNull(OrElse(ls.token, ls.accessToken)))
    ELSE IF result.success /\ TruthyTag(result.value)
         THEN Returns(ls, TRUE, result.value)
         ELSE LET localToken == OrElse(ls.token, ls.accessToken)
              IN  IF TruthyTag(localToken)
                  THEN Awaits(ls, Send("save-token", localToken, "getToken"))
                  ELSE Returns(ls, TRUE, Absent)

\* getToken after `await invoke('get-token')`, lines 71-87
getTokenThen(result, ls) ==
    IF result.rejected
    THEN Returns(ls, TRUE, OrNull(OrElse(ls.token, ls.accessToken)))
    ELSE IF result.success /\ TruthyTag(result.value)
         THEN Returns(SetTokens(ls, result.value), TRUE, result.value)
         ELSE LET localToken == OrElse(ls.token, ls.accessToken)
              IN  IF TruthyTag(localToken)
                  THEN Awaits(ls, Send("save-token", localToken, "getToken"))
                  ELSE Returns(ls, TRUE, Absent)

\* getToken after `await invoke('save-token', localToken)`, lines 80-87
getTokenSynced(localToken, result, ls) ==
    IF result.rejected
    THEN Returns(ls, TRUE, OrNull(OrElse(ls.token, ls.accessToken)))
    ELSE Returns(ls, TRUE, OrNull(localToken))

\* saveUser after `await invoke('save-user', userData)`, lines 96-121
saveUserThen(userData, result, ls) ==
    LET u == userData[1]
        l1 == [ls EXCEPT !.ocs_user = Some(JSONstringify(u))]
        l2 == IF TruthyTag(u.token) THEN SetTokens(l1, u.token) ELSE l1
        l3 == IF TruthyNumber(u.workspaceId)
              THEN [l2 EXCEPT !.workspaceId = Some(ToString(u.workspaceId[1]))]
              ELSE l2
        l4 == IF TruthyTag(u.workspaceSlug)
              THEN [l3 EXCEPT !.workspaceSlug = u.workspaceSlug]
              ELSE l3
    IN  IF result.rejected
        THEN Returns(l2, FALSE, Absent)
        ELSE Returns(IF result.success THEN l4 ELSE ls, result.success, Absent)

\* the catch branch of getUser, lines 146-148
getUserFallback(ls) ==
    IF TruthyTag(ls.ocs_user) THEN Some(JSONparse(ls.ocs_user[1])) ELSE Absent

\* getUser after `await invoke('get-user')`, lines 130-148
getUserThen(result, ls) ==
    IF result.rejected
    THEN Returns(ls, TRUE, getUserFallback(ls))
    ELSE IF result.success /\ result.value # Absent
         THEN Returns([ls EXCEPT !.ocs_user = Some(JSONstringify(result.value[1]))],
                      TRUE, result.value)
         ELSE IF TruthyTag(ls.ocs_user)
              THEN Awaits(ls, Send("save-user", Some(JSONparse(ls.ocs_user[1])), "getUser"))
              ELSE Returns(ls, TRUE, Absent)

\* getUser after `await invoke('save-user', user)`, lines 140-148
getUserSynced(user, result, ls) ==
    IF result.rejected
    THEN Returns(ls, TRUE, getUserFallback(ls))
    ELSE Returns(ls, TRUE, user)

\* clearStorage after `await invoke('clear-storage')`, lines 155-163
clearStorageThen(result, ls) ==
    Returns(EmptyStorage, ~result.rejected /\ result.success, Absent)

\* the continuation of the function that awaits the reply r
Continue(r, ls) ==
    CASE r.fn = "saveToken" -> saveTokenThen(r.arg, r.result, ls)
      [] r.fn = "getToken" /\ r.ch = "get-token" -> getTokenThen(r.result, ls)
      [] r.fn = "getToken" /\ r.ch = "save-token" -> getTokenSynced(r.arg, r.result, ls)
      [] r.fn = "saveUser" -> saveUserThen(r.arg, r.result, ls)
      [] r.fn = "getUser" /\ r.ch = "get-user" -> getUserThen(r.result, ls)
      [] r.fn = "getUser" /\ r.ch = "save-user" -> getUserSynced(r.arg, r.result, ls)
      [] r.fn = "clearStorage" -> clearStorageThen(r.result, ls)

----------------------------------------------------------------------------
(* Steps of the storage *)

\* the first `await ipcRenderer.invoke(ch, arg)` of the preload function fn
Invoke(ch, arg, fn) ==
    /\ ipc' = Append(ipc, Send(ch, arg, fn))
    /\ UNCHANGED <<store, localStorage, replies, resolved>>
    /\ UNCHANGED notificationVars

saveToken(token) ==
    /\ Invoke("save-token", token, "saveToken")
    /\ audit' = [audit EXCEPT !.loggedOut = FALSE]

getToken ==
    /\ Invoke("get-token", Absent, "getToken")
    /\ audit' = [audit EXCEPT !.getFailed = FALSE]

saveUser(userData) ==
    /\ Invoke("save-user", userData, "saveUser")
    /\ audit' = [audit EXCEPT !.loggedOut = FALSE]

getUser ==
    /\ Invoke("get-user", Absent, "getUser")
    /\ UNCHANGED audit

clearStorage ==
    /\ Invoke("clear-storage", Absent, "clearStorage")
    /\ audit' = [audit EXCEPT !.loggedOut = TRUE]

\* how one invoke can end: its handler runs to the end, a store call throws
\* inside the handler, or the invoke promise rejects without the handler
Outcomes(st) == IF st = Absent THEN {"ok", "rejects"} ELSE {"ok", "throws", "rejects"}

\* The main process handles the oldest message and replies.
MainHandle(outcome) ==
    /\ ipc # << >>
    /\ LET msg == Head(ipc)
           h == Handle(msg, store, outcome = "throws")
           result == IF outcome = "rejects" THEN Rejection ELSE h.result
       IN  /\ ipc' = Tail(ipc)
           /\ store' = IF outcome = "rejects" THEN store ELSE h.store
           /\ replies' = Append(replies, [ch |-> msg.ch, arg |-> msg.arg, fn |-> msg.fn,
                                          result |-> result])
           /\ audit' = [audit EXCEPT
                  !.faulted = @ \/ outcome # "ok",
                  !.getFailed = @ \/ (msg.ch = "get-token" /\ ~result.success),
                  !.savedToken =
                      IF msg.ch = "save-token"
                      THEN IF msg.fn = "saveToken" /\ result.success THEN OrNull(msg.arg)
                           ELSE Absent
                      ELSE IF msg.ch \in {"save-user", "clear-storage"} THEN Absent
                           ELSE @]
    /\ UNCHANGED <<localStorage, resolved>>
    /\ UNCHANGED notificationVars

\* The preload function whose reply is the oldest continues after its await.
Resume ==
    /\ replies # << >>
    /\ LET r == Head(replies)
           k == Continue(r, localStorage)
       IN  /\ replies' = Tail(replies)
           /\ localStorage' = k.ls
           /\ ipc' = IF k.next = Absent THEN ipc ELSE Append(ipc, k.next[1])
           /\ resolved' = IF k.next = Absent
                          THEN [fn |-> r.fn, arg |-> r.arg, success |-> k.success,
                                value |-> k.value, changed |-> k.ls # localStorage]
                          ELSE resolved
    /\ UNCHANGED <<store, audit>>
    /\ UNCHANGED notificationVars

\* A restart of the application with a renderer whose localStorage is empty.
WipeLocalStorage ==
    /\ localStorage' = EmptyStorage
    /\ resolved' = NothingResolved
    /\ audit' = [audit EXCEPT !.wiped = TRUE]
    /\ UNCHANGED <<store, ipc, replies>>
    /\ UNCHANGED notificationVars

\* no preload call is pending
Idle == ipc = << >> /\ replies = << >>

----------------------------------------------------------------------------
(* SpecStore: the preload functions called one at a time, each to completion,  *)
(* with every outcome of every invoke, with and without electron-store         *)

Tokens == {Absent, Some(""), Some("A"), Some("B")}

InitStore ==
    /\ NoNotifications
    /\ \E st \in {Absent, Some(StoreDefaults)} : FreshStorage(st)

NextStore ==
    \/ \E token \in Tokens : Idle /\ saveToken(token)
    \/ Idle /\ getToken
    \/ \E u \in UserValues : Idle /\ saveUser(Some(u))
    \/ Idle /\ getUser
    \/ Idle /\ clearStorage
    \/ \E outcome \in Outcomes(store) : MainHandle(outcome)
    \/ Resume
    \/ Idle /\ WipeLocalStorage

SpecStore == InitStore /\ [][NextStore]_vars

----------------------------------------------------------------------------
(* SpecRace: preload calls that overlap, every invoke handled to the end, in   *)
(* the order sent                                                              *)

\* at most this many preload calls are pending at once
MaxPending == 2

RaceTokens == {Some(""), Some("A")}

Room == Len(ipc) + Len(replies) < MaxPending

NextRace ==
    \/ \E token \in RaceTokens : Room /\ saveToken(token)
    \/ Room /\ getToken
    \/ \E u \in UserValues : Room /\ saveUser(Some(u))
    \/ Room /\ getUser
    \/ Room /\ clearStorage
    \/ MainHandle("ok")
    \/ Resume

SpecRace == Init /\ [][NextRace]_vars

----------------------------------------------------------------------------
(* What the latest step was *)

HandlerOps == {"show-desktop-notification", "show-notification"}

\* the step just taken consulted isDuplicateNotification for the non-empty tag k
AskedFor(k) == last'.key = Some(k)

\* the latest call was a handler run for a request without a usable tag
UntaggedRequest(call) ==
    call.op \in HandlerOps /\ call.key # Absent /\ call.tag \in NoTag

----------------------------------------------------------------------------
(* Claims *)

\* C1: two calls for the same non-empty tag that both return "not a duplicate"
\* are at least 2000 ms apart, whatever the reading at the first acceptance:
\* a call that is accepted finds no record of the tag younger than 2000 ms.
C1_AcceptsAtLeastWindowApart ==
    [][\A k \in DOMAIN recentNotifications :
          (AskedFor(k) /\ ~last'.dup)
              => clock' - recentNotifications[k] >= DEDUP_WINDOW_MS]_vars

\* C2: a request for a non-empty tag is suppressed if and only if the tag has a
\* record and now - lastShownAt < 2000, lastShownAt being the latest acceptance.
C2_SuppressedIffRecordWithinWindow ==
    [][\A k \in {last'.key[i] : i \in DOMAIN last'.key} :
          last'.key \notin NoTag
              => (last'.dup <=> (/\ k \in DOMAIN recentNotifications
                                 /\ clock' - recentNotifications[k] < DEDUP_WINDOW_MS))]_vars

\* C3: isDuplicateNotification called with an absent or empty tag returns
\* "not a duplicate" in every state of the map and at every reading.
C3_AbsentOrEmptyTagNeverSuppressed ==
    (last.op = "isDuplicateNotification" /\ last.key \in NoTag) => ~last.dup

\* C3 witness: an empty tag was asked about while the map held records
C3_Witness ==
    /\ last.op = "isDuplicateNotification"
    /\ last.key = Some("")
    /\ ~last.dup
    /\ Cardinality(DOMAIN recentNotifications) > SWEEP_THRESHOLD

\* C4: a call that returns "duplicate", and a call with an absent or empty tag,
\* leave the whole map as it was; and a tag whose latest acceptance is 2000 ms or
\* more in the past is accepted again, however often it was asked meanwhile.
C4_DuplicateLeavesMapUnchanged ==
    [][/\ (last'.op # "none" /\ (last'.dup \/ last'.key \in NoTag))
            => recentNotifications' = recentNotifications
       /\ \A k \in DOMAIN recentNotifications :
            (AskedFor(k) /\ clock' - recentNotifications[k] >= DEDUP_WINDOW_MS)
                => (~last'.dup /\ recentNotifications'[k] = clock')]_vars

\* C4 witness: a duplicate answered later than the acceptance it is measured
\* from, while the map is above the threshold and holds a record a sweep at this
\* reading would delete
C4_Witness ==
    /\ last.dup
    /\ recentNotifications[last.key[1]] < clock
    /\ Cardinality(DOMAIN recentNotifications) > SWEEP_THRESHOLD
    /\ \E k \in DOMAIN recentNotifications :
          recentNotifications[k] < clock - DEDUP_WINDOW_MS * 2

\* C5: the outcome of every call for a tag equals its outcome in the run from
\* which the calls for all other tags are removed.
C5_OtherTagsDoNotInterfere ==
    last.dup = last.soloDup

\* C5 witness: x is asked about after the sweep of another tag's call deleted
\* its record
C5_Witness ==
    /\ last.key = Some("x")
    /\ last.forgotten
    /\ fills > 0

\* C6: after a handler accepted a request with explicit tag T, a request with
\* the same tag through either handler less than 2000 ms later returns false.
C6_HandlersShareOneCheck ==
    [][(/\ last.op \in HandlerOps
        /\ last.tag \notin NoTag
        /\ last.key = last.tag
        /\ ~last.dup
        /\ last'.op \in HandlerOps
        /\ last'.tag = last.tag
        /\ clock' - clock < DEDUP_WINDOW_MS)
           => ~last'.ret]_vars

C8_SweepKeepsNewRecord ==
    (last.op # "none" /\ last.key \notin NoTag /\ ~last.dup)
        => /\ last.key[1] \in DOMAIN recentNotifications
           /\ recentNotifications[last.key[1]] = clock

\* C8 witness: an accepting call whose sweep deleted records
C8_Witness ==
    /\ ~last.dup
    /\ last.swept
    /\ last.removed > 0

\* the timestamps the map holds
Stamps == {recentNotifications[k] : k \in DOMAIN recentNotifications}

\* a map above the threshold holds no record more than 4000 ms older than its newest
Crowded ==
    Cardinality(DOMAIN recentNotifications) > SWEEP_THRESHOLD
        => \A old \in Stamps, newest \in Stamps : old >= newest - DEDUP_WINDOW_MS * 2

\* C9: a record leaves the map exactly when an accepting call for another tag
\* left more than 100 entries after its insert and the record is older than
\* now - 4000; every other record stays as it was; so a map of more than 100
\* records holds none that is more than 4000 ms older than the newest.
C9_SweepExactlyAboveThreshold ==
    [][/\ \A k \in DOMAIN recentNotifications :
            (k \notin DOMAIN recentNotifications')
                <=> (/\ last'.swept
                     /\ last'.key # Some(k)
                     /\ recentNotifications[k] < clock' - DEDUP_WINDOW_MS * 2)
       /\ \A k \in DOMAIN recentNotifications \cap DOMAIN recentNotifications' :
            last'.key # Some(k) => recentNotifications'[k] = recentNotifications[k]
       /\ Crowded']_vars

\* C9 witness: a sweep that deleted a record and kept more than one
C9_Witness ==
    /\ last.swept
    /\ last.removed > 0
    /\ Cardinality(DOMAIN recentNotifications) > 1

\* C10: with distinct tags accepted more than 4000 ms apart the map never holds
\* more than 100 records when a call returns, the 101st insert sweeps, and after
\* all the inserts the map is smaller than their number.
C10_SpacedInsertsStayBounded ==
    /\ Cardinality(DOMAIN recentNotifications) <= SWEEP_THRESHOLD
    /\ fills = SWEEP_THRESHOLD + 1 => (last.swept /\ last.removed > 0)
    /\ fills > SWEEP_THRESHOLD => Cardinality(DOMAIN recentNotifications) < fills
    /\ fills >= MaxInserts => Cardinality(DOMAIN recentNotifications) < MaxInserts

\* C10 witness: all the inserts were made and accepted
C10_Witness ==
    /\ fills = MaxInserts
    /\ ~last.dup
    /\ last.key = Some(FillTag(MaxInserts))
    /\ Cardinality(DOMAIN recentNotifications) < MaxInserts

StoreHoldsNothing ==
    store # Absent
        => /\ ~TruthyTag(store[1].token)
           /\ ~TruthyTag(store[1].accessToken)
           /\ store[1].user = Absent

C13_LogoutClearsEverything ==
    (Idle /\ audit.loggedOut)
        => /\ StoreHoldsNothing
           /\ localStorage.token = Absent
           /\ localStorage.accessToken = Absent
           /\ localStorage.ocs_user = Absent
           /\ resolved.fn \in {"getToken", "getUser"} => resolved.value = Absent

\* C14: when clearStorage() and every other pending call have resolved, and no
\* saveToken or saveUser was called since clearStorage() was, electron-store
\* holds no token and no user, in every interleaving with the messages handled
\* in the order sent.
C14_LogoutNotUndoneByRead ==
    (Idle /\ audit.loggedOut) => StoreHoldsNothing

\* C15: with electron-store available, after every sequence of preload calls
\* made one at a time with no failing invoke, the token in localStorage is the
\* token in electron-store (null and the empty string both meaning no token).
C15_StoreAndLocalStorageAgree ==
    (Idle /\ store # Absent /\ ~audit.faulted /\ ~audit.wiped)
        => /\ OrNull(localStorage.token) = OrNull(store[1].token)
           /\ OrNull(localStorage.accessToken) = OrNull(store[1].accessToken)

\* C16: every call returns what the same call returns in the run of the logic
\* without the sweep, so the two sequences of outcomes are identical.
C16_SweepInvisible ==
    last.dup = last.noSweepDup

\* C16 witness: a tag whose record the sweep deleted is asked about again, and
\* both runs accept it
C16_Witness ==
    /\ last.sweptAway
    /\ ~last.dup
    /\ ~last.noSweepDup
    /\ Cardinality(DOMAIN noSweepNotifications) > Cardinality(DOMAIN recentNotifications)

====
